---- MODULE Spec2Model ----
(***************************************************************************)
(* A model of emotional_climate.py: the survey-cleaning pipeline that      *)
(* extracts a bracketed feeling from each block of text, normalises the    *)
(* responses that follow it, maps them to weights, averages the weights    *)
(* per feeling and prints the feelings ranked by average.                  *)
(*                                                                         *)
(* Text is a sequence of atoms.  An atom is one character ("[", "]", a     *)
(* space, a line break, "?", the word character "x") or one whole word     *)
(* ("Never", "Bored", ...), which stands for its run of word characters.   *)
(* Adjacent word atoms form one longer word, as adjacent characters do.    *)
(* Weights are counted in thirds: 0, 1, 2, 3 stand for 0, 1/3, 2/3, 1.     *)
(***************************************************************************)
EXTENDS Integers, Sequences, FiniteSets, TLC

VARIABLES
    text,                \* the argument of a direct call of a text function
    call,                \* the last direct call: function, subgroup, outcome
    pc,                  \* position of main()
    raw_data,            \* main: raw_data
    cleaned_data,        \* main: cleaned_data, the value clean_data returned
    diagnostics,         \* lines printed by clean_data's except branches
    strip_calls,         \* number of strip_data calls clean_data made
    clean_data_objects,  \* the module-level list of Data objects
    next_index,          \* position of the for loop main() is running
    output,              \* lines printed by order_weights
    error,               \* the exception that ended main(), if any
    runs                 \* number of main() calls started in this process

vars == <<text, call, pc, raw_data, cleaned_data, diagnostics, strip_calls,
          clean_data_objects, next_index, output, error, runs>>

textVars == <<text, call>>
mainVars == <<pc, raw_data, cleaned_data, diagnostics, strip_calls,
              clean_data_objects, next_index, output, error, runs>>

(***************************************************************************)
(* Bounds of the model.                                                    *)
(***************************************************************************)
MaxLen == 6        \* longest bracket text given to a text function
MaxBody == 3       \* longest response text given to find_weights
MaxQuestion == 1   \* longest question text before the label of a survey block
MaxWords == 2      \* most response words after the label of a survey block
MaxSubgroup == 2   \* largest subgroup argument tried
MaxBlocks == 2     \* most blocks selected from the input file
MaxRuns == 2       \* most main() calls in one process
MaxRecords == 2    \* most Data objects built by direct calls

(***************************************************************************)
(* Atoms.                                                                  *)
(***************************************************************************)
LBRACKET == "["
RBRACKET == "]"
SPACE == " "
NEWLINE == "\n"
QUESTION == "?"

WordAtoms == {"Never", "Sometimes", "Often", "Always", "Bored", "Tired", "x"}

IsWord(a) == a \in WordAtoms

SeqUpTo(S, n) == UNION {[1..k -> S] : k \in 0..n}

Min(a, b) == IF a < b THEN a ELSE b

(***************************************************************************)
(* Outcomes of a call: a returned value or a raised exception.             *)
(***************************************************************************)
NoError == [type |-> "none", message |-> "none"]

Return(v) == [raised |-> FALSE, value |-> v, error |-> NoError]

Raise(type, message) ==
    [raised |-> TRUE, value |-> <<>>, error |-> [type |-> type, message |-> message]]

(***************************************************************************)
(* extract_feeling                                                         *)
(***************************************************************************)
\* First position at or after i that holds no word atom (Len + 1 if none).
RECURSIVE WordRunEnd(_, _)
WordRunEnd(data, i) ==
    IF i > Len(data) \/ ~IsWord(data[i]) THEN i ELSE WordRunEnd(data, i + 1)

\* re.findall(r"\[(\w+)\]", data): scan left to right; at an opening bracket
\* take the longest run of word atoms; it is a match if the run is not empty
\* and a closing bracket follows it; the scan resumes after a match.
RECURSIVE FindAllFrom(_, _)
FindAllFrom(data, i) ==
    IF i > Len(data) THEN <<>>
    ELSE IF data[i] = LBRACKET
         THEN LET j == WordRunEnd(data, i + 1)
              IN  IF j > i + 1 /\ j <= Len(data) /\ data[j] = RBRACKET
                  THEN <<SubSeq(data, i + 1, j - 1)>> \o FindAllFrom(data, j + 1)
                  ELSE FindAllFrom(data, i + 1)
         ELSE FindAllFrom(data, i + 1)

FindAll(data) == FindAllFrom(data, 1)

\* extract_feeling without its test of the sign: a negative subgroup
\* reaches match[subgroup], which counts from the end of the list.
ExtractFeelingNoSignCheck(data, subgroup) ==
    LET match == FindAll(data)
        number_of_matches == Len(match)
    IN  IF subgroup >= number_of_matches
        THEN Raise("IndexError", "SubgroupNotLessThanMatches")
        ELSE IF subgroup >= 0
             THEN Return(match[subgroup + 1])
             ELSE IF number_of_matches + subgroup >= 0
                  THEN Return(match[number_of_matches + subgroup + 1])
                  ELSE Raise("IndexError", "ListIndexOutOfRange")

ExtractFeeling(data, subgroup) ==
    IF subgroup < 0
    THEN Raise("IndexError", "SubgroupNegative")
    ELSE LET match == FindAll(data)
             number_of_matches == Len(match)
         IN  IF subgroup >= number_of_matches
             THEN Raise("IndexError", "SubgroupNotLessThanMatches")
             ELSE Return(match[subgroup + 1])

(***************************************************************************)
(* strip_data                                                              *)
(***************************************************************************)
ReplaceNewlines(s) == [i \in 1..Len(s) |-> IF s[i] = NEWLINE THEN SPACE ELSE s[i]]

\* str.find shifted by one: the first position of a in s, 0 when absent.
RECURSIVE FindFrom(_, _, _)
FindFrom(s, a, i) ==
    IF i > Len(s) THEN 0 ELSE IF s[i] = a THEN i ELSE FindFrom(s, a, i + 1)

Find(s, a) == FindFrom(s, a, 1)

\* The last position of an atom other than a in s, 0 when there is none.
RECURSIVE LastOther(_, _, _)
LastOther(s, a, i) ==
    IF i = 0 THEN 0 ELSE IF s[i] # a THEN i ELSE LastOther(s, a, i - 1)

RECURSIVE FirstOther(_, _, _)
FirstOther(s, a, i) ==
    IF i > Len(s) THEN i ELSE IF s[i] # a THEN i ELSE FirstOther(s, a, i + 1)

\* str.strip() on text whose only white space is the space.
Strip(s) == SubSeq(s, FirstOther(s, SPACE, 1), LastOther(s, SPACE, Len(s)))

\* strip_data that leaves the line breaks in place.
StripDataKeepNewlines(raw) ==
    Strip(SubSeq(raw, Find(raw, RBRACKET) + 1, Len(raw)))

StripData(raw) ==
    LET cleaned == ReplaceNewlines(raw)
    IN  Strip(SubSeq(cleaned, Find(cleaned, RBRACKET) + 1, Len(cleaned)))

(***************************************************************************)
(* clean_data                                                              *)
(***************************************************************************)
\* An except clause that names TypeError alone.
ExtractCaughtTypeErrorOnly == {"TypeError"}

\* except (TypeError, IndexError)
ExtractCaught == {"TypeError", "IndexError"}

\* One iteration of the for loop: try extract_feeling; on a caught error
\* print one line and go on; else try strip_data; else append the pair.
CleanOne(data, acc) ==
    LET feeling == ExtractFeeling(data, 0)
    IN  IF feeling.raised
        THEN IF feeling.error.type \in ExtractCaught
             THEN [acc EXCEPT !.diagnostics =
                       Append(@, [stage |-> "extract_feeling",
                                  message |-> feeling.error.message])]
             ELSE [acc EXCEPT !.escaped = feeling.error]
        ELSE [acc EXCEPT !.strip_calls = @ + 1,
                         !.pairs = Append(@, <<feeling.value, StripData(data)>>)]

RECURSIVE CleanLoop(_, _, _)
CleanLoop(raw, i, acc) ==
    IF i > Len(raw) \/ acc.escaped.type # "none"
    THEN acc
    ELSE CleanLoop(raw, i + 1, CleanOne(raw[i], acc))

\* What clean_data hands back: the list, or None when the list is empty.
ReturnedList(pairs) ==
    IF pairs # <<>> THEN [none |-> FALSE, list |-> pairs]
                    ELSE [none |-> TRUE, list |-> <<>>]

CleanData(raw) ==
    LET acc == CleanLoop(raw, 1, [pairs |-> <<>>, diagnostics |-> <<>>,
                                  strip_calls |-> 0, escaped |-> NoError])
    IN  [returned |-> ReturnedList(acc.pairs),
         pairs |-> acc.pairs,
         diagnostics |-> acc.diagnostics,
         strip_calls |-> acc.strip_calls,
         escaped |-> acc.escaped]

(***************************************************************************)
(* find_weights                                                            *)
(***************************************************************************)
None == -1

\* split() with no argument: runs of spaces are one cut, no empty pieces.
RECURSIVE SplitOnRuns(_)
SplitOnRuns(s) ==
    LET t == Strip(s)
        p == Find(t, SPACE)
    IN  IF t = <<>> THEN <<>>
        ELSE IF p = 0 THEN <<t>>
        ELSE <<SubSeq(t, 1, p - 1)>> \o SplitOnRuns(SubSeq(t, p + 1, Len(t)))

\* str.split(" "): cut at every single space; empty pieces are kept.
RECURSIVE Split(_)
Split(s) ==
    LET p == Find(s, SPACE)
    IN  IF p = 0 THEN <<s>>
        ELSE <<SubSeq(s, 1, p - 1)>> \o Split(SubSeq(s, p + 1, Len(s)))

\* weight_for_time_interval, in thirds.
WeightFor(time_interval) ==
    IF time_interval = <<"Never">> THEN 0
    ELSE IF time_interval = <<"Sometimes">> THEN 1
    ELSE IF time_interval = <<"Often">> THEN 2
    ELSE IF time_interval = <<"Always">> THEN 3
    ELSE None

FindWeights(data) ==
    LET tokens == Split(data)
    IN  [i \in 1..Len(tokens) |-> WeightFor(tokens[i])]

(***************************************************************************)
(* Data                                                                    *)
(***************************************************************************)
RECURSIVE GCD(_, _)
GCD(a, b) == IF b = 0 THEN a ELSE GCD(b, a % b)

\* The number num/den thirds, in lowest terms.
Number(num, den) ==
    LET g == GCD(num, den) IN [nan |-> FALSE, num |-> num \div g, den |-> den \div g]

NaN == [nan |-> TRUE, num |-> 0, den |-> 1]

RECURSIVE Sum(_)
Sum(ws) == IF ws = <<>> THEN 0 ELSE Head(ws) + Sum(Tail(ws))

HasNone(ws) == \E i \in 1..Len(ws) : ws[i] = None

\* numpy.mean of a list: nan for the empty list, a TypeError when an entry is
\* None (the sum of the object array cannot be formed), else sum / length.
Mean(ws) ==
    IF ws = <<>> THEN Return(NaN)
    ELSE IF HasNone(ws) THEN Raise("TypeError", "UnsupportedOperandNoneType")
    ELSE Return(Number(Sum(ws), Len(ws)))

\* Data.__init__
NewData(feeling, data) ==
    [feeling |-> feeling, data |-> data, weights |-> <<>>,
     average_weight |-> Number(0, 1)]

\* Data.update_weights with Data.update_average_weight: the object as the call
\* leaves it, and the exception it ends in, if any.
UpdateWeights(object, new_weights) ==
    LET replaced == [object EXCEPT !.weights = new_weights]
        mean == Mean(new_weights)
    IN  IF mean.raised
        THEN [object |-> replaced, error |-> mean.error]
        ELSE [object |-> [replaced EXCEPT !.average_weight = mean.value],
              error |-> NoError]

\* populate_dataset
PopulateDataset(objects, feeling, feeling_data) ==
    Append(objects, NewData(feeling, feeling_data))

(***************************************************************************)
(* order_weights                                                           *)
(***************************************************************************)
Less(a, b) == a.num * b.den < b.num * a.den

Key(element) == element[2]

\* list.sort(key=itemgetter(1), reverse=True) where every key is a number:
\* descending, and elements with equal keys keep their order.
RECURSIVE InsertDescending(_, _, _)
InsertDescending(sorted, element, i) ==
    IF i > Len(sorted) THEN Append(sorted, element)
    ELSE IF Less(Key(sorted[i]), Key(element))
         THEN SubSeq(sorted, 1, i - 1) \o <<element>> \o SubSeq(sorted, i, Len(sorted))
         ELSE InsertDescending(sorted, element, i + 1)

RECURSIVE SortDescendingFrom(_, _, _)
SortDescendingFrom(weights, i, sorted) ==
    IF i > Len(weights) THEN sorted
    ELSE SortDescendingFrom(weights, i + 1, InsertDescending(sorted, weights[i], 1))

\* A sort that is ascending and then reversed: equal keys change places.
RECURSIVE InsertDescendingTiesFirst(_, _, _)
InsertDescendingTiesFirst(sorted, element, i) ==
    IF i > Len(sorted) THEN Append(sorted, element)
    ELSE IF ~Less(Key(element), Key(sorted[i]))
         THEN SubSeq(sorted, 1, i - 1) \o <<element>> \o SubSeq(sorted, i, Len(sorted))
         ELSE InsertDescendingTiesFirst(sorted, element, i + 1)

RECURSIVE SortTiesReversedFrom(_, _, _)
SortTiesReversedFrom(weights, i, sorted) ==
    IF i > Len(weights) THEN sorted
    ELSE SortTiesReversedFrom(weights, i + 1,
                              InsertDescendingTiesFirst(sorted, weights[i], 1))

SortTiesReversed(weights) == SortTiesReversedFrom(weights, 1, <<>>)

SortDescending(weights) == SortDescendingFrom(weights, 1, <<>>)

IndexPermutations(n) ==
    {p \in [1..n -> 1..n] : \A i, j \in 1..n : i # j => p[i] # p[j]}

\* The lines order_weights may print.  A nan key compares false with every
\* key in both directions, so where it ends up depends on the steps of the
\* sorting routine: every order of the elements is allowed then.
OrderWeights(data_objects) ==
    LET weights == [i \in 1..Len(data_objects) |->
                        <<data_objects[i].feeling, data_objects[i].average_weight>>]
    IN  IF \E i \in 1..Len(weights) : Key(weights[i]).nan
        THEN {[i \in 1..Len(weights) |-> weights[p[i]]] : p \in IndexPermutations(Len(weights))}
        ELSE {SortDescending(weights)}

(***************************************************************************)
(* Direct calls of the text functions: extract_feeling, find_weights and   *)
(* clean_data applied to one text.                                         *)
(***************************************************************************)
BracketTexts == SeqUpTo({LBRACKET, RBRACKET, SPACE, "x", "Bored"}, MaxLen)

BodyTexts == SeqUpTo({SPACE, "Never", "Sometimes", "Often", "Always", "x"}, MaxBody)

\* A survey block: question text, the bracketed label, then the response
\* words, each after one space or line break, and an optional last line break.
SurveyBlock(question, label, words, seps, tail) ==
    question \o <<LBRACKET>> \o label \o <<RBRACKET>>
    \o [k \in 1..(2 * Len(words)) |->
            IF k % 2 = 1 THEN seps[(k + 1) \div 2] ELSE words[k \div 2]]
    \o tail

SurveyBlocks ==
    {SurveyBlock(q, <<"Bored">>, w, s, t) :
        q \in SeqUpTo({QUESTION, LBRACKET, RBRACKET, SPACE, NEWLINE}, MaxQuestion),
        w \in SeqUpTo({"Never", "Often"}, MaxWords),
        s \in [1..MaxWords -> {SPACE, NEWLINE}],
        t \in {<<>>, <<NEWLINE>>}}

TextInputs == BracketTexts \cup BodyTexts \cup SurveyBlocks

NoCall == [fn |-> "none", subgroup |-> 0, outcome |-> Return(<<>>)]

MainIdle ==
    /\ pc = "idle"
    /\ raw_data = <<>>
    /\ cleaned_data = ReturnedList(<<>>)
    /\ diagnostics = <<>>
    /\ strip_calls = 0
    /\ clean_data_objects = <<>>
    /\ next_index = 0
    /\ output = <<>>
    /\ error = NoError
    /\ runs = 0

InitText ==
    /\ text \in TextInputs
    /\ call = NoCall
    /\ MainIdle

CallExtractFeeling ==
    /\ call.fn = "none"
    /\ \E subgroup \in (0 - MaxSubgroup)..MaxSubgroup :
          call' = [fn |-> "extract_feeling", subgroup |-> subgroup,
                   outcome |-> ExtractFeeling(text, subgroup)]
    /\ UNCHANGED <<text, mainVars>>

CallFindWeights ==
    /\ call.fn = "none"
    /\ call' = [fn |-> "find_weights", subgroup |-> 0,
                outcome |-> Return(FindWeights(text))]
    /\ UNCHANGED <<text, mainVars>>

CallCleanData ==
    /\ call.fn = "none"
    /\ call' = [fn |-> "clean_data", subgroup |-> 0,
                outcome |-> CleanData(<<text>>)]
    /\ UNCHANGED <<text, mainVars>>

NextText == CallExtractFeeling \/ CallFindWeights \/ CallCleanData

SpecText == InitText /\ [][NextText]_vars

(***************************************************************************)
(* Direct calls on the Data objects: populate_dataset, Data.update_weights *)
(* and, last, order_weights on the list built so far.                      *)
(***************************************************************************)
Feelings == {<<"Bored">>, <<"Tired">>}

WeightInputs == {<<>>, <<0>>, <<3>>, <<1, 2>>, <<3, None>>}

InitData ==
    /\ text = <<>>
    /\ call = NoCall
    /\ pc = "calls"
    /\ raw_data = <<>>
    /\ cleaned_data = ReturnedList(<<>>)
    /\ diagnostics = <<>>
    /\ strip_calls = 0
    /\ clean_data_objects = <<>>
    /\ next_index = 0
    /\ output = <<>>
    /\ error = NoError
    /\ runs = 0

CallPopulateDataset ==
    /\ pc = "calls"
    /\ Len(clean_data_objects) < MaxRecords
    /\ \E feeling \in Feelings :
          clean_data_objects' = PopulateDataset(clean_data_objects, feeling, <<"Always">>)
    /\ error' = NoError
    /\ UNCHANGED <<textVars, pc, raw_data, cleaned_data, diagnostics, strip_calls,
                   next_index, output, runs>>

CallUpdateWeights ==
    /\ pc = "calls"
    /\ \E k \in 1..Len(clean_data_objects), new_weights \in WeightInputs :
          LET updated == UpdateWeights(clean_data_objects[k], new_weights)
          IN  /\ clean_data_objects' = [clean_data_objects EXCEPT ![k] = updated.object]
              /\ error' = updated.error
    /\ UNCHANGED <<textVars, pc, raw_data, cleaned_data, diagnostics, strip_calls,
                   next_index, output, runs>>

CallOrderWeights ==
    /\ pc = "calls"
    /\ output' \in OrderWeights(clean_data_objects)
    /\ pc' = "ranked"
    /\ error' = NoError
    /\ UNCHANGED <<textVars, raw_data, cleaned_data, diagnostics, strip_calls,
                   clean_data_objects, next_index, runs>>

NextData == CallPopulateDataset \/ CallUpdateWeights \/ CallOrderWeights

SpecData == InitData /\ [][NextData]_vars

(***************************************************************************)
(* main(): one step per call or loop iteration.  diagnostics and output    *)
(* hold the lines printed by the current run.                              *)
(***************************************************************************)
LowerIndex == 5
UpperIndex == 15

HeaderBlock == <<"x", NEWLINE>>

BoredBlock ==
    <<NEWLINE, QUESTION, SPACE, LBRACKET, "Bored", RBRACKET,
      NEWLINE, "Never", NEWLINE, "Always">>

TiredBlock ==
    <<NEWLINE, QUESTION, SPACE, LBRACKET, "Tired", RBRACKET,
      NEWLINE, "Sometimes", NEWLINE, "Always", NEWLINE>>

UnmappedBlock == <<LBRACKET, "Tired", RBRACKET, NEWLINE, "Always", NEWLINE, "x">>

Blocks == {HeaderBlock, BoredBlock, TiredBlock, UnmappedBlock}

\* The blocks of the file after the split: nothing, or a header of LowerIndex
\* blocks, followed by up to MaxBlocks survey blocks.
FileContents ==
    {header \o blocks :
        header \in {<<>>, [i \in 1..LowerIndex |-> HeaderBlock]},
        blocks \in SeqUpTo(Blocks, MaxBlocks)}

\* data[lower_index:upper_index] for indices that are not negative.
Slice(data, lower_index, upper_index) ==
    SubSeq(data, lower_index + 1, Min(upper_index, Len(data)))

\* get_data_from_file, given whether the file exists and its split content.
GetDataFromFile(is_file, data, lower_index, upper_index) ==
    IF ~is_file
    THEN Raise("FileNotFoundError", "CouldNotBeFound")
    ELSE Return(Slice(data, lower_index, upper_index))

Init ==
    /\ text = <<>>
    /\ call = NoCall
    /\ pc = "get_data"
    /\ raw_data = <<>>
    /\ cleaned_data = ReturnedList(<<>>)
    /\ diagnostics = <<>>
    /\ strip_calls = 0
    /\ clean_data_objects = <<>>
    /\ next_index = 0
    /\ output = <<>>
    /\ error = NoError
    /\ runs = 1

\* raw_data = get_data_from_file("EmotionalClimateData.dat", DELIMITER, 5, 15)
GetData ==
    /\ pc = "get_data"
    /\ \E is_file \in BOOLEAN, data \in FileContents :
          LET got == GetDataFromFile(is_file, data, LowerIndex, UpperIndex)
          IN  IF got.raised
              THEN /\ pc' = "aborted"
                   /\ error' = got.error
                   /\ raw_data' = raw_data
              ELSE /\ pc' = "clean_data"
                   /\ error' = error
                   /\ raw_data' = got.value
    /\ UNCHANGED <<textVars, cleaned_data, diagnostics, strip_calls,
                   clean_data_objects, next_index, output, runs>>

\* cleaned_data = clean_data(raw_data)
CleanDataCall ==
    /\ pc = "clean_data"
    /\ LET cleaned == CleanData(raw_data)
       IN  /\ diagnostics' = cleaned.diagnostics
           /\ strip_calls' = cleaned.strip_calls
           /\ IF cleaned.escaped.type # "none"
              THEN /\ pc' = "aborted"
                   /\ error' = cleaned.escaped
                   /\ cleaned_data' = cleaned_data
              ELSE /\ pc' = "populate"
                   /\ error' = error
                   /\ cleaned_data' = cleaned.returned
    /\ next_index' = 0
    /\ UNCHANGED <<textVars, raw_data, clean_data_objects, output, runs>>

\* for data in cleaned_data, when cleaned_data is None
IterateNone ==
    /\ pc = "populate"
    /\ cleaned_data.none
    /\ pc' = "aborted"
    /\ error' = [type |-> "TypeError", message |-> "NoneTypeNotIterable"]
    /\ UNCHANGED <<textVars, raw_data, cleaned_data, diagnostics, strip_calls,
                   clean_data_objects, next_index, output, runs>>

\* populate_dataset(data[0], data[1])
PopulateStep ==
    /\ pc = "populate"
    /\ ~cleaned_data.none
    /\ next_index < Len(cleaned_data.list)
    /\ LET data == cleaned_data.list[next_index + 1]
       IN  clean_data_objects' = PopulateDataset(clean_data_objects, data[1], data[2])
    /\ next_index' = next_index + 1
    /\ UNCHANGED <<textVars, pc, raw_data, cleaned_data, diagnostics, strip_calls,
                   output, error, runs>>

PopulateDone ==
    /\ pc = "populate"
    /\ ~cleaned_data.none
    /\ next_index = Len(cleaned_data.list)
    /\ pc' = "update_weights"
    /\ next_index' = 0
    /\ UNCHANGED <<textVars, raw_data, cleaned_data, diagnostics, strip_calls,
                   clean_data_objects, output, error, runs>>

\* A pass that steps over every second object.
ScoreResultSkipping(objects, index) ==
    LET updated == UpdateWeights(objects[index + 1], FindWeights(objects[index + 1].data))
    IN  [objects |-> [objects EXCEPT ![index + 1] = updated.object],
         error |-> updated.error,
         index |-> index + 2]

\* data_object.update_weights(find_weights(data_object.data))
ScoreResult(objects, index) ==
    LET updated == UpdateWeights(objects[index + 1], FindWeights(objects[index + 1].data))
    IN  [objects |-> [objects EXCEPT ![index + 1] = updated.object],
         error |-> updated.error,
         index |-> index + 1]

ScoreStep ==
    /\ pc = "update_weights"
    /\ next_index < Len(clean_data_objects)
    /\ LET scored == ScoreResult(clean_data_objects, next_index)
       IN  /\ clean_data_objects' = scored.objects
           /\ IF scored.error.type # "none"
              THEN /\ pc' = "aborted"
                   /\ error' = scored.error
                   /\ next_index' = next_index
              ELSE /\ pc' = pc
                   /\ error' = error
                   /\ next_index' = scored.index
    /\ UNCHANGED <<textVars, raw_data, cleaned_data, diagnostics, strip_calls,
                   output, runs>>

ScoreDone ==
    /\ pc = "update_weights"
    /\ next_index >= Len(clean_data_objects)
    /\ pc' = "order_weights"
    /\ UNCHANGED <<textVars, raw_data, cleaned_data, diagnostics, strip_calls,
                   clean_data_objects, next_index, output, error, runs>>

\* order_weights(clean_data_objects)
OrderWeightsCall ==
    /\ pc = "order_weights"
    /\ output' \in OrderWeights(clean_data_objects)
    /\ pc' = "done"
    /\ UNCHANGED <<textVars, raw_data, cleaned_data, diagnostics, strip_calls,
                   clean_data_objects, next_index, error, runs>>

\* main() is called again in the same process: its locals are new, the
\* module-level clean_data_objects is the list the earlier run left.
MainAgain ==
    /\ pc = "done"
    /\ runs < MaxRuns
    /\ pc' = "get_data"
    /\ runs' = runs + 1
    /\ raw_data' = <<>>
    /\ cleaned_data' = ReturnedList(<<>>)
    /\ diagnostics' = <<>>
    /\ strip_calls' = 0
    /\ next_index' = 0
    /\ output' = <<>>
    /\ UNCHANGED <<textVars, clean_data_objects, error>>

Next ==
    \/ GetData
    \/ CleanDataCall
    \/ IterateNone
    \/ PopulateStep
    \/ PopulateDone
    \/ ScoreStep
    \/ ScoreDone
    \/ OrderWeightsCall
    \/ MainAgain

Spec == Init /\ [][Next]_vars

(***************************************************************************)
(* Properties.  They describe the texts by positions, not by the scans     *)
(* the functions above perform.                                            *)
(***************************************************************************)
\* The places <<i, j>> of a bracketed word: "[" at i, "]" at j, and between
\* them one or more word atoms and nothing else.
BracketSpans(t) ==
    {s \in {i \in 1..Len(t) : t[i] = LBRACKET} \X {j \in 1..Len(t) : t[j] = RBRACKET} :
        /\ s[2] > s[1] + 1
        /\ \A k \in (s[1] + 1)..(s[2] - 1) : IsWord(t[k])}

\* The n-th bracketed word from the left, counting from 0.
NthBracketWord(t, n) ==
    LET spans == BracketSpans(t)
        s == CHOOSE s \in spans : Cardinality({r \in spans : r[1] < s[1]}) = n
    IN  SubSeq(t, s[1] + 1, s[2] - 1)

SpacePositions(t) == {i \in 1..Len(t) : t[i] = SPACE}

\* The k-th piece of t between single spaces, counting from 1.
PieceAt(t, k) ==
    LET spaces == SpacePositions(t)
        before == IF k = 1 THEN 0
                  ELSE CHOOSE p \in spaces : Cardinality({q \in spaces : q < p}) = k - 2
        after == IF k = Cardinality(spaces) + 1 THEN Len(t) + 1
                 ELSE CHOOSE p \in spaces : Cardinality({q \in spaces : q < p}) = k - 1
    IN  SubSeq(t, before + 1, after - 1)

LexiconWeight(token) ==
    CASE token = <<"Never">> -> 0
      [] token = <<"Sometimes">> -> 1
      [] token = <<"Often">> -> 2
      [] token = <<"Always">> -> 3
      [] OTHER -> None

\* C7: find_weights never fails; its result has one entry per piece of the
\* body between single spaces (one more than the number of spaces), in
\* order: 0, 1/3, 2/3, 1 for Never, Sometimes, Often, Always and the absence
\* marker for every other piece, the empty piece included.
FindWeightsTotal ==
    call.fn = "find_weights" =>
        /\ ~call.outcome.raised
        /\ Len(call.outcome.value) = Cardinality(SpacePositions(text)) + 1
        /\ \A k \in 1..Len(call.outcome.value) :
              call.outcome.value[k] = LexiconWeight(PieceAt(text, k))

\* find_weights("Often  ") has returned [2/3, None, None].
FindWeightsEmptyPieces ==
    /\ call.fn = "find_weights"
    /\ text = <<"Often", SPACE, SPACE>>
    /\ call.outcome.value = <<2, None, None>>

\* t holds exactly one bracketed word and, after it, only response words,
\* each after one space or line break, and at most one separator at the end.
SurveyForm(t) ==
    /\ Cardinality(BracketSpans(t)) = 1
    /\ LET s == CHOOSE s \in BracketSpans(t) : TRUE
       IN  \A k \in (s[2] + 1)..Len(t) :
              IF (k - s[2]) % 2 = 1 THEN t[k] \in {SPACE, NEWLINE} ELSE IsWord(t[k])

LabelOf(t) == NthBracketWord(t, 0)

LabelStart(t) == (CHOOSE s \in BracketSpans(t) : TRUE)[1]

LabelEnd(t) == (CHOOSE s \in BracketSpans(t) : TRUE)[2]

WordCount(t) == (Len(t) - LabelEnd(t)) \div 2

\* The response words of t joined by single spaces.
JoinedWords(t) ==
    [k \in 1..(IF WordCount(t) = 0 THEN 0 ELSE 2 * WordCount(t) - 1) |->
        IF k % 2 = 1 THEN t[LabelEnd(t) + k + 1] ELSE SPACE]

RoundTrip(t, result) ==
    /\ result.escaped = NoError
    /\ result.returned = [none |-> FALSE, list |-> << <<LabelOf(t), JoinedWords(t)>> >>]

\* C6 as stated: for every block with exactly one bracketed [L] followed by
\* words W, whatever the question text before [L], stray brackets included,
\* clean_data([block]) is [(L, W joined by single spaces)].
RoundTripAnyQuestion ==
    (call.fn = "clean_data" /\ SurveyForm(text)) => RoundTrip(text, call.outcome)

\* C6 amended: the same, for blocks with no closing bracket before [L].
RoundTripNoClosingBracketBefore ==
    (/\ call.fn = "clean_data"
     /\ SurveyForm(text)
     /\ \A k \in 1..LabelStart(text) : text[k] # RBRACKET)
        => RoundTrip(text, call.outcome)

\* clean_data(["?[Bored]\nNever\nOften\n"]) has returned
\* [("Bored", "Never Often")].
RoundTripTwoWords ==
    /\ call.fn = "clean_data"
    /\ text = <<QUESTION, LBRACKET, "Bored", RBRACKET, NEWLINE, "Never",
                NEWLINE, "Often", NEWLINE>>
    /\ call.outcome.returned.list = << << <<"Bored">>, <<"Never", SPACE, "Often">> >> >>

\* The blocks of raw that hold a bracketed word, by position.
Survivors(raw) == {i \in 1..Len(raw) : BracketSpans(raw[i]) # {}}

\* The n-th smallest member of a set of positions, counting from 1.
NthOf(positions, n) ==
    CHOOSE i \in positions : Cardinality({j \in positions : j < i}) = n - 1

\* clean_data has returned in the current run of main().
CleanDataReturned ==
    pc \in {"populate", "update_weights", "order_weights", "done"}
    \/ (pc = "aborted" /\ error.type # "FileNotFoundError")

\* C1: no error escapes clean_data; the pairs it accumulates are one
\* (label, normalised body) pair for each block with a bracketed word, in
\* the order of the blocks; a block without one is skipped with one line
\* and never reaches strip_data; pairs + lines = blocks.
CleanDataPartialFailure ==
    /\ error.type # "IndexError"
    /\ CleanDataReturned =>
          LET pairs == cleaned_data.list
              kept == Survivors(raw_data)
          IN  /\ Len(pairs) = Cardinality(kept)
              /\ \A n \in 1..Len(pairs) :
                    LET block == raw_data[NthOf(kept, n)]
                    IN  pairs[n] = <<NthBracketWord(block, 0), StripData(block)>>
              /\ Len(diagnostics) = Len(raw_data) - Cardinality(kept)
              /\ strip_calls = Cardinality(kept)
              /\ Len(pairs) + Len(diagnostics) = Len(raw_data)

\* clean_data has skipped a block without brackets and kept the next one.
CleanDataSkippedThenKept ==
    /\ pc = "populate"
    /\ Len(raw_data) = 2
    /\ raw_data[1] = HeaderBlock
    /\ Len(diagnostics) = 1
    /\ cleaned_data.list = << << <<"Tired">>, <<"Sometimes", SPACE, "Always">> >> >>

\* The arithmetic mean of the weights, undefined for the empty list and for
\* a list that holds the absence marker.
ArithmeticMean(ws) ==
    IF ws = <<>> \/ (\E i \in 1..Len(ws) : ws[i] = None)
    THEN NaN
    ELSE Number(Sum(ws), Len(ws))

\* C3: in every state of a Data object, just created or after any
\* update_weights calls, one that ends in an error included, average_weight
\* is the arithmetic mean of the current weights.
AverageConsistent ==
    \A k \in 1..Len(clean_data_objects) :
        clean_data_objects[k].average_weight = ArithmeticMean(clean_data_objects[k].weights)

Defined(objects) == \A k \in 1..Len(objects) : ~objects[k].average_weight.nan

Above(a, b) == a.num * b.den > b.num * a.den

\* The place of object k in the ranking: after every object with a larger
\* average and after every earlier object with the same average.
RankOf(objects, k) ==
    1 + Cardinality({j \in 1..Len(objects) :
                        Above(objects[j].average_weight, objects[k].average_weight)})
      + Cardinality({j \in 1..(k - 1) :
                        objects[j].average_weight = objects[k].average_weight})

\* C4: for objects with defined averages order_weights prints one
\* (feeling, average_weight) pair per object, by non-increasing average, and
\* objects with equal averages in the order of the list.
RankingOrder ==
    (pc = "ranked" /\ Defined(clean_data_objects)) =>
        /\ Len(output) = Len(clean_data_objects)
        /\ \A k \in 1..Len(clean_data_objects) :
              output[RankOf(clean_data_objects, k)] =
                  <<clean_data_objects[k].feeling, clean_data_objects[k].average_weight>>
        /\ \A i \in 1..(Len(output) - 1) : ~Above(output[i + 1][2], output[i][2])

\* order_weights has printed two objects with equal averages and different
\* feelings in the order of the list.
RankingTieKept ==
    /\ pc = "ranked"
    /\ Len(clean_data_objects) = 2
    /\ clean_data_objects[1].feeling = <<"Tired">>
    /\ clean_data_objects[2].feeling = <<"Bored">>
    /\ clean_data_objects[1].weights = <<1, 2>>
    /\ clean_data_objects[2].weights = <<1, 2>>
    /\ output[1][1] = <<"Tired">>
    /\ output[2][1] = <<"Bored">>

\* C5: scoring an object whose body holds a token outside the lexicon does
\* not fail: its weights hold the absence marker, its average_weight is
\* nan, and the run goes on.
UnmappedTokenScored ==
    \A k \in 1..Len(clean_data_objects) :
        (\E i \in 1..Len(clean_data_objects[k].weights) :
            clean_data_objects[k].weights[i] = None)
        => /\ clean_data_objects[k].average_weight.nan
           /\ pc # "aborted"
           /\ error = NoError

Scored(object) ==
    /\ object.weights # <<>>
    /\ Len(object.weights) = Cardinality(SpacePositions(object.data)) + 1
    /\ \A i \in 1..Len(object.weights) :
          object.weights[i] = LexiconWeight(PieceAt(object.data, i))

\* One step of a run that keeps to the two phases.
TwoPhaseStep ==
    \* objects are only added, one at a time, by the populate loop
    /\ Len(clean_data_objects') >= Len(clean_data_objects)
    /\ \A k \in 1..Len(clean_data_objects) :
          /\ clean_data_objects'[k].feeling = clean_data_objects[k].feeling
          /\ clean_data_objects'[k].data = clean_data_objects[k].data
    /\ Len(clean_data_objects') # Len(clean_data_objects) =>
          /\ pc = "populate"
          /\ Len(clean_data_objects') = Len(clean_data_objects) + 1
    \* the populate loop is not entered again once the pass has started
    /\ pc' = "populate" => pc \in {"clean_data", "populate"}
    /\ pc \in {"update_weights", "order_weights"} =>
          pc' \in {"update_weights", "order_weights", "done", "aborted"}
    \* the pass starts at the first object, takes the objects one by one in
    \* the order of the list, and is the only place that sets weights
    /\ (pc # "update_weights" /\ pc' = "update_weights") => next_index' = 0
    /\ \A k \in 1..Len(clean_data_objects) :
          (\/ clean_data_objects'[k].weights # clean_data_objects[k].weights
           \/ clean_data_objects'[k].average_weight # clean_data_objects[k].average_weight)
          => (pc = "update_weights" /\ k = next_index + 1)
    /\ (pc = "update_weights" /\ pc' = "update_weights") =>
          /\ next_index' = next_index + 1
          /\ Scored(clean_data_objects'[next_index'])
    \* ranking starts after every object has been scored
    /\ pc' = "order_weights" =>
          /\ pc = "update_weights"
          /\ next_index = Len(clean_data_objects)
          /\ \A k \in 1..Len(clean_data_objects') : Scored(clean_data_objects'[k])

\* C8: in every run all populate_dataset calls come before the first
\* weights update, one pass over the whole list in insertion order sets
\* each object's weights and average once, no object is added, deleted or
\* scored again after the pass starts, and ranking starts only after every
\* object has been scored.
TwoPhaseLifecycle == [][TwoPhaseStep]_vars

\* A run has scored two objects and is about to rank them.
TwoScoredBeforeRanking ==
    /\ pc = "order_weights"
    /\ runs = 1
    /\ Len(clean_data_objects) = 2
    /\ next_index = 2
    /\ \A k \in 1..2 : Scored(clean_data_objects[k])

\* C9: when the report is produced, in a first or a later run, the list
\* holds one object per cleaned block of that run, in block order, and
\* none from an earlier run.
RegistryHoldsThisRun ==
    pc = "done" =>
        /\ Len(clean_data_objects) = Len(cleaned_data.list)
        /\ \A k \in 1..Len(clean_data_objects) :
              /\ clean_data_objects[k].feeling = cleaned_data.list[k][1]
              /\ clean_data_objects[k].data = cleaned_data.list[k][2]

\* C10: when the file exists and no block survives cleaning, the run is
\* not ended by an error.
NoSurvivorRunCompletes ==
    (/\ CleanDataReturned
     /\ Survivors(raw_data) = {})
        => pc # "aborted"

====
